---- MODULE Spec2Model ----
(***************************************************************************)
(* AppCenterCommandExecutor of the App Center extension: the commands      *)
(* login, logout, whoAmI, getCurrentApp, setCurrentApp and releaseReact,   *)
(* each a chain of editor prompts and promise callbacks over the stored    *)
(* user profile, the two status bar items and the CodePush release client. *)
(*                                                                         *)
(* A program string that names an app is a sequence of characters, so that *)
(* formatting "owner/app" and parsing it back are computed, not assumed.   *)
(* Every callback of the source (.then handler) is one action; a command   *)
(* that is waiting for a prompt answer or for a promise is an entry of     *)
(* `pending`.  `last` records what the latest step did (messages shown,    *)
(* status bar calls, release calls, profile saves).                        *)
(***************************************************************************)
EXTENDS Integers, Sequences, FiniteSets, Bags, TLC

\* ---------------------------------------------------------------- bounds
MaxLen == 4        \* longest text typed into the current-app input box
MaxPending == 2    \* commands in flight at the same time

\* ---------------------------------------------------------------- strings
Chars == {"a", "/"}

Str(n) == UNION {[1..k -> Chars] : k \in 0..n}

\* the value of a dismissed input box, and JavaScript's null
Undefined == <<"undefined">>
Null == <<"null">>

Slash == <<"/">>

\* `${owner}/${app}`
AppString(owner, app) == owner \o Slash \o app

\* ---------------------------------------------------------------- DefaultApp
NullApp == [ownerName |-> <<>>, appName |-> <<>>, identifier |-> <<>>]

SlashAt(s) == {i \in 1..Len(s) : s[i] = "/"}

\* ACUtils.toDefaultApp: "owner/app" with both parts non-empty and free of
\* "/" parses to a DefaultApp; anything else (the empty string and a
\* dismissed input included) to null.
toDefaultApp(s) ==
    IF Cardinality(SlashAt(s)) = 1
    THEN LET p == CHOOSE i \in SlashAt(s) : TRUE
             owner == SubSeq(s, 1, p - 1)
             app == SubSeq(s, p + 1, Len(s))
         IN IF owner # <<>> /\ app # <<>>
            THEN [ownerName |-> owner, appName |-> app,
                  identifier |-> AppString(owner, app)]
            ELSE NullApp
    ELSE NullApp

\* ---------------------------------------------------------------- profile
NoUser == [stored |-> FALSE, displayName |-> "", defaultApp |-> NullApp]

\* tokens the user can type; "" is the empty input
GoodToken == "good"
Tokens == {"", GoodToken, "bad"}

\* what the token input box yields: a text, or undefined when dismissed
TokenAnswers == {Undefined} \cup {<<t>> : t \in Tokens}

\* the account a token belongs to on the server
TokenDisplayName(token) == IF token = <<GoodToken>> THEN "Alice" ELSE ""

\* ---------------------------------------------------------------- ACStrings
NoArg == <<>>

Msg(level, text, arg) == [level |-> level, text |-> text, arg |-> arg]

UserLoggedOutMsg == "Successfully logged out from App Center"
UserIsNotLoggedInMsg == "You are not logged in to App Center"
NoCurrentAppSetMsg == "No current app is specified for App Center"
InvalidCurrentAppNameMsg == "Sorry, provided app name is invalid"
FailedToExecuteLoginMsg == "Failed to execute login to App Center"
PleaseLoginViaBrowser == "Please login to AppCenter in the browser window we will open"
YouAreLoggedInMsg == "You are logged in to App Center as"
YourCurrentAppMsg == "Your current app is"

\* vscode.window.showInformationMessage / showWarningMessage
Info(text, arg) == Msg("info", text, arg)
Warn(text, arg) == Msg("warning", text, arg)

\* ---------------------------------------------------------------- release
TargetBinaryVersion == "1.0.0"
DeploymentName == "Staging"
ProjectRootPath == "/workspace/project"

\* ReleaseParams releasing to another deployment
ReleaseParamsProduction(currentApp, bundleZipPath) ==
    [app |-> currentApp,
     appVersion |-> TargetBinaryVersion,
     deploymentName |-> "Production",
     updatedContentZipPath |-> bundleZipPath,
     set |-> {"app", "appVersion", "deploymentName", "updatedContentZipPath"}]

\* ICodePushReleaseParams: the fields the literal sets, `set` naming them
ReleaseParams(currentApp, bundleZipPath) ==
    [app |-> currentApp,
     appVersion |-> TargetBinaryVersion,
     deploymentName |-> DeploymentName,
     updatedContentZipPath |-> bundleZipPath,
     set |-> {"app", "appVersion", "deploymentName", "updatedContentZipPath"}]

\* ---------------------------------------------------------------- state
VARIABLES
    profile,       \* the current user profile (getUser()), NoUser when none
    profileFile,   \* the profile as last written by profile.save() / Auth
    authBar,       \* the login status bar item
    appBar,        \* the current-app status bar item
    pending,       \* commands waiting for a prompt answer or a promise
    last           \* what the latest step did

vars == <<profile, profileFile, authBar, appBar, pending, last>>

\* AppCenterExtensionManager's status bar items
setupNotAuthenticatedStatusBar == [authenticated |-> FALSE, name |-> ""]
setuAuthenticatedStatusBar(name) == [authenticated |-> TRUE, name |-> name]
setCurrentAppStatusBar(app) == app
Unset == <<"unset">>

BarCall(fn, arg) == [fn |-> fn, arg |-> arg]

\* ---------------------------------------------------------------- promises
\* ReturnedPromise with every command returning its prompt chain
ReturnedPromiseChain(kind, chain) == chain

\* The promise a command hands back, given the state of its prompt chain:
\* releaseReact returns the chain itself, the others Q.resolve(void 0).
ReturnedPromise(kind, chain) ==
    IF kind = "releaseReact" THEN chain ELSE "resolved"

\* the part of a profile that the callback on Auth.doTokenLogin reads
Yielded(stored, name) == [stored |-> stored, displayName |-> name]
NoProfile == Yielded(FALSE, "")

Task(kind, pc) ==
    [kind |-> kind, pc |-> pc, ret |-> ReturnedPromise(kind, "pending"),
     token |-> Undefined, input |-> <<>>, app |-> NullApp,
     stored |-> NullApp, saved |-> FALSE, prof |-> NoProfile]

Step(kind, pc, answer) ==
    [kind |-> kind, pc |-> pc, answer |-> answer,
     ret |-> ReturnedPromise(kind, "resolved"), thrown |-> FALSE,
     msgs |-> <<>>, bars |-> <<>>, execs |-> <<>>, logs |-> <<>>,
     saves |-> 0, urls |-> 0, prompts |-> 0, doTokenLogin |-> 0, doLogout |-> 0,
     app |-> NullApp, stored |-> NullApp, saved |-> FALSE, prof |-> NoProfile]

\* the commands in flight are a bag: prompts are answered and promises
\* settle in any order
Remove(t) == pending (-) SetToBag({t})

Put(t, u) == (pending (-) SetToBag({t})) (+) SetToBag({u})

Add(t) == pending (+) SetToBag({t})

Tasks == BagToSet(pending)

At(t, kind, pc) ==
    /\ t \in Tasks
    /\ t.kind = kind
    /\ t.pc = pc

\* A callback on a promise that is already resolved (Q.resolve(x).then(f),
\* Q(x).then(f)) is queued by Q for the next tick and runs before any other
\* event is handled: while one is queued no prompt is answered, no Auth call
\* completes and no command starts.
QueuedPcs == {"getThen", "setThen", "releaseThen", "setAppBar"}

Idle == \A t \in Tasks : t.pc \notin QueuedPcs

\* a prompt answer or the completion of an Auth call, for the command t
Event(t, kind, pc) == Idle /\ At(t, kind, pc)

\* ---------------------------------------------------------------- current app
\* restoreCurrentApp formatting `${appName}/${ownerName}`
restoreCurrentAppSwapped(user) ==
    IF user.stored
    THEN LET currentApp ==
                 IF user.defaultApp # NullApp
                 THEN AppString(user.defaultApp.appName, user.defaultApp.ownerName)
                 ELSE <<>>
         IN toDefaultApp(currentApp)
    ELSE NullApp

\* restoreCurrentApp: the profile's defaultApp, formatted and parsed again
restoreCurrentApp(user) ==
    IF user.stored
    THEN LET currentApp ==
                 IF user.defaultApp # NullApp
                 THEN AppString(user.defaultApp.ownerName, user.defaultApp.appName)
                 ELSE <<>>
         IN toDefaultApp(currentApp)
    ELSE NullApp

\* the app a profile holds, for comparison with what restoreCurrentApp yields
StoredApp(user) == IF user.stored THEN user.defaultApp ELSE NullApp

\* saveCurrentApp keeping an app the profile already holds
saveCurrentAppKeepFirst(user, currentApp) ==
    LET defaultApp == toDefaultApp(currentApp)
    IN IF defaultApp = NullApp
       THEN [profile |-> user, saved |-> FALSE, saves |-> 0,
             msgs |-> <<Warn(InvalidCurrentAppNameMsg, NoArg)>>]
       ELSE IF user.stored
       THEN [profile |-> IF user.defaultApp = NullApp
                         THEN [user EXCEPT !.defaultApp = defaultApp]
                         ELSE user,
             saved |-> TRUE, saves |-> 1, msgs |-> <<>>]
       ELSE [profile |-> user, saved |-> FALSE, saves |-> 0,
             msgs |-> <<Warn(UserIsNotLoggedInMsg, NoArg)>>]

\* saveCurrentApp: the profile afterwards, the result, the warning shown and
\* the number of profile.save() calls
saveCurrentApp(user, currentApp) ==
    LET defaultApp == toDefaultApp(currentApp)
    IN IF defaultApp = NullApp
       THEN [profile |-> user, saved |-> FALSE, saves |-> 0,
             msgs |-> <<Warn(InvalidCurrentAppNameMsg, NoArg)>>]
       ELSE IF user.stored
       THEN [profile |-> [user EXCEPT !.defaultApp = defaultApp],
             saved |-> TRUE, saves |-> 1, msgs |-> <<>>]
       ELSE [profile |-> user, saved |-> FALSE, saves |-> 0,
             msgs |-> <<Warn(UserIsNotLoggedInMsg, NoArg)>>]

\* setCurrentAppThen without the test of `saved`
setCurrentAppThenUnchecked(saved, currentApp, bar) ==
    [msgs |-> <<Info(YourCurrentAppMsg, currentApp)>>,
     bars |-> <<BarCall("setCurrentAppStatusBar", currentApp)>>,
     appBar |-> setCurrentAppStatusBar(currentApp)]

\* the callback of setCurrentApp on saveCurrentApp's result
setCurrentAppThen(saved, currentApp, bar) ==
    IF saved
    THEN [msgs |-> <<Info(YourCurrentAppMsg, currentApp)>>,
          bars |-> <<BarCall("setCurrentAppStatusBar", currentApp)>>,
          appBar |-> setCurrentAppStatusBar(currentApp)]
    ELSE [msgs |-> <<>>, bars |-> <<>>, appBar |-> bar]

\* the callback of getCurrentApp
getCurrentAppThen(app) ==
    IF app # NullApp
    THEN <<Info(YourCurrentAppMsg, app.identifier)>>
    ELSE <<Info(NoCurrentAppSetMsg, NoArg)>>

\* whoAmI
whoAmIMsgs(user) ==
    IF user.stored /\ user.displayName # ""
    THEN <<Info(YouAreLoggedInMsg, <<user.displayName>>)>>
    ELSE <<Info(UserIsNotLoggedInMsg, NoArg)>>

\* releaseReactThen without the test of currentApp
releaseReactThenUnchecked(currentApp, bundleZipPath) ==
    [msgs |-> <<>>, execs |-> <<ReleaseParams(currentApp, bundleZipPath)>>]

\* the callback of releaseReact: the warning, or the one release call
releaseReactThen(currentApp, bundleZipPath) ==
    IF currentApp = NullApp
    THEN [msgs |-> <<Warn(NoCurrentAppSetMsg, NoArg)>>, execs |-> <<>>]
    ELSE [msgs |-> <<>>,
          execs |-> <<ReleaseParams(currentApp, bundleZipPath)>>]

\* ---------------------------------------------------------------- login
Interactive == <<"Interactive">>
Token == <<"Token">>
LoginTypeAnswers == {Interactive, Token, Undefined}
Ok == <<"OK">>
ConfirmAnswers == {Ok, Undefined}

toLowerCase(sel) == IF sel = Ok THEN <<"ok">> ELSE sel

\* the switch on the picked login type: the prompt shown next, or the throw
loginSwitch(loginType) ==
    IF loginType = Interactive THEN "confirmBrowser"
    ELSE IF loginType = Token THEN "enterToken"
    ELSE "throw"

\* the callback on the "please login via browser" message: a dismissed
\* message is undefined, and undefined.toLowerCase() throws
loginConfirm(selection) ==
    IF selection = Undefined THEN "throw"
    ELSE IF toLowerCase(selection) = <<"ok">> THEN "enterToken"
    ELSE "done"

\* loginWithToken testing for a dismissed prompt only
loginWithTokenDefined(token) == token # Undefined

\* loginWithToken: whether Auth.doTokenLogin is called
loginWithToken(token) == ~(token = Undefined \/ token = <<"">>)

\* loginWithTokenThen going on after the warning
loginWithTokenThenFallThrough(prof, bar) ==
    [msgs |-> IF ~prof.stored
              THEN <<Warn(FailedToExecuteLoginMsg, NoArg)>>
              ELSE <<Info(YouAreLoggedInMsg, <<prof.displayName>>)>>,
     logs |-> IF ~prof.stored
              THEN <<"Failed to fetch user info from server">>
              ELSE <<>>,
     bars |-> <<BarCall("setuAuthenticatedStatusBar", <<prof.displayName>>)>>,
     authBar |-> setuAuthenticatedStatusBar(prof.displayName),
     restore |-> TRUE]

\* the callback on Auth.doTokenLogin's profile
loginWithTokenThen(prof, bar) ==
    IF ~prof.stored
    THEN [msgs |-> <<Warn(FailedToExecuteLoginMsg, NoArg)>>,
          logs |-> <<"Failed to fetch user info from server">>,
          bars |-> <<>>, authBar |-> bar, restore |-> FALSE]
    ELSE [msgs |-> <<Info(YouAreLoggedInMsg, <<prof.displayName>>)>>,
          logs |-> <<>>,
          bars |-> <<BarCall("setuAuthenticatedStatusBar", <<prof.displayName>>)>>,
          authBar |-> setuAuthenticatedStatusBar(prof.displayName),
          restore |-> TRUE]

\* the callback on restoreCurrentApp inside loginWithToken
loginSetAppBar(currentApp) ==
    IF currentApp # NullApp
    THEN setCurrentAppStatusBar(currentApp.identifier)
    ELSE setCurrentAppStatusBar(Null)

\* ---------------------------------------------------------------- logout
LogoutOption == <<"Logout">>
LogoutAnswers == {LogoutOption, Undefined}

\* logoutSwitch logging out on a dismissed pick too
logoutSwitchAny(logoutType) == TRUE

\* the switch on the logout pick: whether Auth.doLogout is called
logoutSwitch(logoutType) == logoutType = LogoutOption

\* the callbacks on Auth.doLogout
logoutThen ==
    [msgs |-> <<Info(UserLoggedOutMsg, NoArg)>>,
     bars |-> <<BarCall("setupNotAuthenticatedStatusBar", NoArg)>>,
     authBar |-> setupNotAuthenticatedStatusBar]

logoutCatch == <<"An errro occured on logout">>

\* ---------------------------------------------------------------- Init
Init ==
    /\ profile = NoUser
    /\ profileFile = NoUser
    /\ authBar = setupNotAuthenticatedStatusBar
    /\ appBar = Unset
    /\ pending = EmptyBag
    /\ last = Step("init", "init", NoArg)

\* a command is invoked: its first prompt is shown and the command returns
Invoke(kind, pc) ==
    /\ Idle
    /\ BagCardinality(pending) < MaxPending
    /\ pending' = Add(Task(kind, pc))
    /\ last' = [Step(kind, "invoke", NoArg) EXCEPT
                   !.ret = ReturnedPromise(kind, "pending"), !.prompts = 1]
    /\ UNCHANGED <<profile, profileFile, authBar, appBar>>

\* a command is invoked that starts with restoreCurrentApp(): the app is
\* read from the profile now, its callback runs later
InvokeRestore(kind, pc) ==
    /\ Idle
    /\ BagCardinality(pending) < MaxPending
    /\ pending' = Add([Task(kind, pc) EXCEPT
                          !.app = restoreCurrentApp(profile),
                          !.stored = StoredApp(profile)])
    /\ last' = [Step(kind, "invoke", NoArg) EXCEPT
                   !.ret = ReturnedPromise(kind, "pending"),
                   !.app = restoreCurrentApp(profile),
                   !.stored = StoredApp(profile)]
    /\ UNCHANGED <<profile, profileFile, authBar, appBar>>

\* ---------------------------------------------------------------- login
Login == Invoke("login", "pickLoginType")

LoginPick(t, loginType) ==
    /\ Event(t, "login", "pickLoginType")
    /\ LET next == loginSwitch(loginType)
           step == Step("login", "pickLoginType", loginType)
       IN IF next = "throw"
          THEN /\ pending' = Remove(t)
               /\ last' = [step EXCEPT !.thrown = TRUE,
                              !.ret = ReturnedPromise("login", "rejected")]
          ELSE /\ pending' = Put(t, [t EXCEPT !.pc = next])
               /\ last' = [step EXCEPT !.prompts = 1,
                              !.msgs = IF next = "confirmBrowser"
                                       THEN <<Info(PleaseLoginViaBrowser, Ok)>>
                                       ELSE <<>>]
    /\ UNCHANGED <<profile, profileFile, authBar, appBar>>

LoginConfirm(t, selection) ==
    /\ Event(t, "login", "confirmBrowser")
    /\ LET next == loginConfirm(selection)
           step == Step("login", "confirmBrowser", selection)
       IN IF next = "enterToken"
          THEN /\ pending' = Put(t, [t EXCEPT !.pc = next])
               /\ last' = [step EXCEPT !.urls = 1, !.prompts = 1]
          ELSE /\ pending' = Remove(t)
               /\ last' = IF next = "throw"
                          THEN [step EXCEPT !.thrown = TRUE,
                                   !.ret = ReturnedPromise("login", "rejected")]
                          ELSE step
    /\ UNCHANGED <<profile, profileFile, authBar, appBar>>

LoginToken(t, token) ==
    /\ Event(t, "login", "enterToken")
    /\ LET step == Step("login", "enterToken", token)
       IN IF loginWithToken(token)
          THEN /\ pending' = Put(t, [t EXCEPT !.pc = "doTokenLogin", !.token = token])
               /\ last' = [step EXCEPT !.doTokenLogin = 1]
          ELSE /\ pending' = Remove(t)
               /\ last' = step
    /\ UNCHANGED <<profile, profileFile, authBar, appBar>>

\* Auth.doTokenLogin reaches the point where it has its result: a token the
\* server knows stores the profile of its account (with or without the app
\* the previous profile held) and yields it; any other token yields no
\* profile and leaves the stored one alone.  The promise it returned settles
\* with that result and the callback of loginWithToken runs in a later turn
\* (LoginThen); other events may be handled in between.
AuthTokenLogin(t, keep) ==
    /\ Event(t, "login", "doTokenLogin")
    /\ LET name == TokenDisplayName(t.token)
           new == [stored |-> TRUE, displayName |-> name,
                   defaultApp |-> IF keep THEN StoredApp(profile) ELSE NullApp]
           got == IF name # "" THEN Yielded(TRUE, name) ELSE NoProfile
       IN /\ profile' = IF name # "" THEN new ELSE profile
          /\ profileFile' = IF name # "" THEN new ELSE profileFile
          /\ pending' = Put(t, [t EXCEPT !.pc = "loginThen", !.prof = got,
                                   !.token = Undefined])
          /\ last' = [Step("Auth", "doTokenLogin", t.token) EXCEPT !.prof = got]
    /\ UNCHANGED <<authBar, appBar>>

LoginThen(t) ==
    /\ Event(t, "login", "loginThen")
    /\ LET r == loginWithTokenThen(t.prof, authBar)
           app == IF r.restore THEN restoreCurrentApp(profile) ELSE NullApp
           had == IF r.restore THEN StoredApp(profile) ELSE NullApp
       IN /\ authBar' = r.authBar
          /\ pending' = IF r.restore
                        THEN Put(t, [t EXCEPT !.pc = "setAppBar",
                                        !.app = app, !.stored = had])
                        ELSE Remove(t)
          /\ last' = [Step("login", "loginThen", NoArg) EXCEPT
                         !.msgs = r.msgs, !.logs = r.logs, !.bars = r.bars,
                         !.prof = t.prof, !.app = app, !.stored = had]
    /\ UNCHANGED <<profile, profileFile, appBar>>

LoginSetAppBar(t) ==
    /\ At(t, "login", "setAppBar")
    /\ appBar' = loginSetAppBar(t.app)
    /\ pending' = Remove(t)
    /\ last' = [Step("login", "setAppBar", NoArg) EXCEPT
                   !.bars = <<BarCall("setCurrentAppStatusBar", loginSetAppBar(t.app))>>,
                   !.app = t.app, !.stored = t.stored, !.prof = t.prof]
    /\ UNCHANGED <<profile, profileFile, authBar>>

\* ---------------------------------------------------------------- logout
Logout == Invoke("logout", "pickLogout")

LogoutPick(t, logoutType) ==
    /\ Event(t, "logout", "pickLogout")
    /\ LET step == Step("logout", "pickLogout", logoutType)
       IN IF logoutSwitch(logoutType)
          THEN /\ pending' = Put(t, [t EXCEPT !.pc = "doLogout"])
               /\ last' = [step EXCEPT !.doLogout = 1]
          ELSE /\ pending' = Remove(t)
               /\ last' = step
    /\ UNCHANGED <<profile, profileFile, authBar, appBar>>

\* Auth.doLogout reaches the point where it has removed the stored user, or
\* has failed (the user stays); the callbacks of logout run in a later turn
\* (LogoutThen, LogoutCatch).
AuthLogout(t, ok) ==
    /\ Event(t, "logout", "doLogout")
    /\ profile' = IF ok THEN NoUser ELSE profile
    /\ profileFile' = IF ok THEN NoUser ELSE profileFile
    /\ pending' = Put(t, [t EXCEPT !.pc = IF ok THEN "logoutThen" ELSE "logoutCatch"])
    /\ last' = [Step("Auth", "doLogout", NoArg) EXCEPT !.saved = ok]
    /\ UNCHANGED <<authBar, appBar>>

LogoutThen(t) ==
    /\ Event(t, "logout", "logoutThen")
    /\ authBar' = logoutThen.authBar
    /\ pending' = Remove(t)
    /\ last' = [Step("logout", "logoutThen", NoArg) EXCEPT
                   !.msgs = logoutThen.msgs, !.bars = logoutThen.bars]
    /\ UNCHANGED <<profile, profileFile, appBar>>

LogoutCatch(t) ==
    /\ Event(t, "logout", "logoutCatch")
    /\ pending' = Remove(t)
    /\ last' = [Step("logout", "logoutCatch", NoArg) EXCEPT !.logs = logoutCatch]
    /\ UNCHANGED <<profile, profileFile, authBar, appBar>>

\* ---------------------------------------------------------------- whoAmI
\* the caller passes the profile it holds: none, or the current one
WhoAmIArgs == {NoUser, profile}

WhoAmI(user) ==
    /\ Idle
    /\ last' = [Step("whoAmI", "invoke", NoArg) EXCEPT
                   !.msgs = whoAmIMsgs(user),
                   !.prof = Yielded(user.stored, user.displayName)]
    /\ UNCHANGED <<profile, profileFile, authBar, appBar, pending>>

\* ---------------------------------------------------------------- current app
GetCurrentApp == InvokeRestore("getCurrentApp", "getThen")

GetThen(t) ==
    /\ At(t, "getCurrentApp", "getThen")
    /\ pending' = Remove(t)
    /\ last' = [Step("getCurrentApp", "getThen", NoArg) EXCEPT
                   !.msgs = getCurrentAppThen(t.app),
                   !.app = t.app, !.stored = t.stored]
    /\ UNCHANGED <<profile, profileFile, authBar, appBar>>

SetCurrentApp == Invoke("setCurrentApp", "inputApp")

AppAnswers == Str(MaxLen) \cup {Undefined}

\* the callback on the input box runs saveCurrentApp; the callback on its
\* result keeps the typed text, which it reads only when the app was saved
SetInput(t, currentApp) ==
    /\ Event(t, "setCurrentApp", "inputApp")
    /\ LET r == saveCurrentApp(profile, currentApp)
       IN /\ profile' = r.profile
          /\ profileFile' = IF r.saves > 0 THEN r.profile ELSE profileFile
          /\ pending' = Put(t, [t EXCEPT !.pc = "setThen", !.saved = r.saved,
                                   !.input = IF r.saved THEN currentApp ELSE <<>>])
          /\ last' = [Step("setCurrentApp", "inputApp", currentApp) EXCEPT
                         !.msgs = r.msgs, !.saves = r.saves, !.saved = r.saved]
    /\ UNCHANGED <<authBar, appBar>>

SetThen(t) ==
    /\ At(t, "setCurrentApp", "setThen")
    /\ LET r == setCurrentAppThen(t.saved, t.input, appBar)
       IN /\ appBar' = r.appBar
          /\ pending' = Remove(t)
          /\ last' = [Step("setCurrentApp", "setThen", t.input) EXCEPT
                         !.msgs = r.msgs, !.bars = r.bars, !.saved = t.saved]
    /\ UNCHANGED <<profile, profileFile, authBar>>

\* ---------------------------------------------------------------- release
ReleaseReact == InvokeRestore("releaseReact", "releaseThen")

ReleaseThen(t) ==
    /\ At(t, "releaseReact", "releaseThen")
    /\ LET r == releaseReactThen(t.app, ProjectRootPath)
       IN /\ pending' = Remove(t)
          /\ last' = [Step("releaseReact", "releaseThen", NoArg) EXCEPT
                         !.msgs = r.msgs, !.execs = r.execs,
                         !.app = t.app, !.stored = t.stored]
    /\ UNCHANGED <<profile, profileFile, authBar, appBar>>

\* ---------------------------------------------------------------- Next
Next ==
    \/ Login
    \/ \E t \in Tasks, a \in LoginTypeAnswers : LoginPick(t, a)
    \/ \E t \in Tasks, a \in ConfirmAnswers : LoginConfirm(t, a)
    \/ \E t \in Tasks, a \in TokenAnswers : LoginToken(t, a)
    \/ \E t \in Tasks, keep \in BOOLEAN : AuthTokenLogin(t, keep)
    \/ \E t \in Tasks : LoginThen(t)
    \/ \E t \in Tasks : LoginSetAppBar(t)
    \/ Logout
    \/ \E t \in Tasks, a \in LogoutAnswers : LogoutPick(t, a)
    \/ \E t \in Tasks, ok \in BOOLEAN : AuthLogout(t, ok)
    \/ \E t \in Tasks : LogoutThen(t)
    \/ \E t \in Tasks : LogoutCatch(t)
    \/ \E user \in WhoAmIArgs : WhoAmI(user)
    \/ GetCurrentApp
    \/ \E t \in Tasks : GetThen(t)
    \/ SetCurrentApp
    \/ \E t \in Tasks, a \in AppAnswers : SetInput(t, a)
    \/ \E t \in Tasks : SetThen(t)
    \/ ReleaseReact
    \/ \E t \in Tasks : ReleaseThen(t)

Spec == Init /\ [][Next]_vars

\* ---------------------------------------------------------------- properties
\* the number of commands of `kind` waiting at `pc` in the bag b
Count(b, kind, pc) ==
    BagCardinality([t \in {x \in BagToSet(b) : x.kind = kind /\ x.pc = pc} |-> b[t]])

Did(kind, pc) == last.kind = kind /\ last.pc = pc

\* the step just taken, seen from an action formula
Does(kind, pc) == last'.kind = kind /\ last'.pc = pc

SameApp(x, y) == x.ownerName = y.ownerName /\ x.appName = y.appName

\* C1: the callback of releaseReact on a restored current app calls
\* CodePushReleaseReact.exec exactly once, with that app, appVersion "1.0.0",
\* deploymentName "Staging" and updatedContentZipPath the project root path,
\* and sets no other release parameter; no other step makes a release call.
C1_ReleaseCall ==
    /\ (Did("releaseReact", "releaseThen") /\ last.app # NullApp) =>
          /\ Len(last.execs) = 1
          /\ last.execs[1].app = last.app
          /\ SameApp(last.app, last.stored)
          /\ last.execs[1].appVersion = "1.0.0"
          /\ last.execs[1].deploymentName = "Staging"
          /\ last.execs[1].updatedContentZipPath = ProjectRootPath
          /\ last.execs[1].set =
                {"app", "appVersion", "deploymentName", "updatedContentZipPath"}
    /\ ~Did("releaseReact", "releaseThen") => last.execs = <<>>

C1_Witness ==
    /\ Did("releaseReact", "releaseThen")
    /\ Len(last.execs) = 1
    /\ last.app.ownerName # last.app.appName

\* C2: when no current app is stored at the time releaseReact restores it,
\* the callback shows the NoCurrentAppSetMsg warning and makes no release
\* call; a release call is made only for an app that was stored then.
C2_NoAppNoRelease ==
    /\ (Did("releaseReact", "releaseThen") /\ last.stored = NullApp) =>
          /\ last.msgs = <<[level |-> "warning",
                            text |-> "No current app is specified for App Center",
                            arg |-> <<>>]>>
          /\ last.execs = <<>>
    /\ last.execs # <<>> => last.stored # NullApp
    /\ \A t \in Tasks : t.kind = "releaseReact" =>
          (t.app = NullApp <=> t.stored = NullApp)

C2_Witness ==
    /\ Did("releaseReact", "releaseThen")
    /\ last.stored = NullApp
    /\ last.msgs # <<>>
    /\ profile.stored

\* C3: setCurrentApp with an input toDefaultApp accepts, while a profile
\* exists, sets profile.defaultApp to the parsed app (whatever it was), saves
\* the profile once, and its callback shows YourCurrentAppMsg with the input
\* and sets the current-app status bar to it.
C3_SetCurrentApp ==
    [][ /\ (/\ Does("setCurrentApp", "inputApp")
            /\ toDefaultApp(last'.answer) # NullApp
            /\ profile.stored) =>
              /\ profile' = [profile EXCEPT !.defaultApp = toDefaultApp(last'.answer)]
              /\ profileFile' = profile'
              /\ last'.saves = 1
              /\ last'.saved
              /\ last'.msgs = <<>>
              /\ Count(pending', "setCurrentApp", "setThen") =
                    Count(pending, "setCurrentApp", "setThen") + 1
        /\ (Does("setCurrentApp", "setThen") /\ last'.saved) =>
              /\ last'.msgs = <<[level |-> "info", text |-> "Your current app is",
                                 arg |-> last'.answer]>>
              /\ last'.bars = <<BarCall("setCurrentAppStatusBar", last'.answer)>>
              /\ appBar' = last'.answer
              /\ toDefaultApp(last'.answer) # NullApp
      ]_vars

\* a later successful setCurrentApp has replaced the app an earlier one set
\* (the status bar still shows the earlier one)
C3_Witness ==
    /\ Did("setCurrentApp", "inputApp")
    /\ last.saved
    /\ profile.defaultApp = toDefaultApp(last.answer)
    /\ appBar \notin {Unset, Null}
    /\ toDefaultApp(appBar) # profile.defaultApp

C5_LoginFlow ==
    [][ /\ last'.doTokenLogin > 0 =>
              /\ Does("login", "enterToken")
              /\ last'.doTokenLogin = 1
              /\ last'.answer # Undefined
              /\ last'.answer # <<"">>
              /\ Count(pending, "login", "enterToken") > 0
        /\ Count(pending', "login", "doTokenLogin") > Count(pending, "login", "doTokenLogin")
              => last'.doTokenLogin = 1
        /\ Count(pending', "login", "enterToken") > Count(pending, "login", "enterToken") =>
              \/ Does("login", "pickLoginType") /\ last'.answer = <<"Token">>
              \/ /\ Does("login", "confirmBrowser")
                 /\ last'.answer = <<"OK">>
                 /\ last'.urls = 1
        /\ Count(pending', "login", "confirmBrowser") > Count(pending, "login", "confirmBrowser") =>
              Does("login", "pickLoginType") /\ last'.answer = <<"Interactive">>
        /\ (Does("login", "enterToken") /\ last'.answer \in {Undefined, <<"">>}) =>
              /\ last'.doTokenLogin = 0
              /\ Count(pending', "login", "doTokenLogin") = Count(pending, "login", "doTokenLogin")
        /\ (Does("login", "confirmBrowser") /\ last'.answer # <<"OK">>) =>
              /\ last'.urls = 0
              /\ last'.prompts = 0
              /\ Count(pending', "login", "enterToken") = Count(pending, "login", "enterToken")
        /\ (last'.kind = "login" /\ last'.pc \in {"invoke", "pickLoginType", "confirmBrowser", "enterToken"}) =>
              /\ authBar' = authBar
              /\ appBar' = appBar
              /\ profile' = profile
      ]_vars

C5_Witness ==
    /\ Did("login", "enterToken")
    /\ last.doTokenLogin = 1
    /\ last.answer = <<"good">>

\* C6: the callback on Auth.doTokenLogin: without a profile it warns
\* FailedToExecuteLoginMsg and sets no status bar; with a profile it sets the
\* authenticated status bar with the profile's displayName, and only a later
\* callback sets the current-app status bar, to the identifier of the app
\* restored then, or to null when none was stored.
C6_LoginWithToken ==
    [][ /\ (Does("login", "loginThen") /\ ~last'.prof.stored) =>
              /\ last'.msgs = <<[level |-> "warning",
                                 text |-> "Failed to execute login to App Center",
                                 arg |-> <<>>]>>
              /\ last'.bars = <<>>
              /\ authBar' = authBar
              /\ appBar' = appBar
              /\ Count(pending', "login", "setAppBar") = Count(pending, "login", "setAppBar")
        /\ (Does("login", "loginThen") /\ last'.prof.stored) =>
              /\ authBar' = [authenticated |-> TRUE, name |-> last'.prof.displayName]
              /\ last'.bars = <<BarCall("setuAuthenticatedStatusBar", <<last'.prof.displayName>>)>>
              /\ appBar' = appBar
              /\ Count(pending', "login", "setAppBar") =
                    Count(pending, "login", "setAppBar") + 1
              /\ SameApp(last'.app, StoredApp(profile))
        /\ Count(pending', "login", "setAppBar") > Count(pending, "login", "setAppBar") =>
              Does("login", "loginThen") /\ last'.prof.stored
        /\ Does("login", "setAppBar") =>
              /\ Count(pending', "login", "setAppBar") =
                    Count(pending, "login", "setAppBar") - 1
              /\ authBar' = authBar
              /\ appBar' = IF last'.stored # NullApp THEN last'.app.identifier ELSE Null
              /\ last'.stored # NullApp =>
                    last'.app.identifier = last'.stored.ownerName \o <<"/">> \o last'.stored.appName
      ]_vars

C6_Witness ==
    /\ Did("login", "setAppBar")
    /\ last.stored # NullApp
    /\ appBar = last.app.identifier
    /\ authBar = [authenticated |-> TRUE, name |-> "Alice"]

\* C7: Auth.doLogout is called only by the pick of "Logout"; after its
\* success the logged-out message is shown and the status bar becomes
\* not-authenticated; after its failure the error is logged and the status
\* bar stays; a dismissed pick calls nothing and changes nothing.
C7_Logout ==
    [][ /\ last'.doLogout > 0 =>
              /\ Does("logout", "pickLogout")
              /\ last'.answer = <<"Logout">>
              /\ last'.doLogout = 1
        /\ Count(pending', "logout", "doLogout") > Count(pending, "logout", "doLogout") =>
              last'.doLogout = 1
        /\ (Does("logout", "pickLogout") /\ last'.answer # <<"Logout">>) =>
              /\ last'.doLogout = 0
              /\ BagCardinality(pending') = BagCardinality(pending) - 1
              /\ Count(pending', "logout", "doLogout") = Count(pending, "logout", "doLogout")
              /\ last'.msgs = <<>>
        /\ last'.kind = "logout" /\ last'.pc \in {"invoke", "pickLogout"} =>
              /\ authBar' = authBar
              /\ appBar' = appBar
              /\ profile' = profile
        /\ Count(pending', "logout", "logoutThen") > Count(pending, "logout", "logoutThen") =>
              Does("Auth", "doLogout") /\ last'.saved /\ ~profile'.stored
        /\ Count(pending', "logout", "logoutCatch") > Count(pending, "logout", "logoutCatch") =>
              Does("Auth", "doLogout") /\ ~last'.saved /\ profile' = profile
        /\ Does("logout", "logoutThen") =>
              /\ last'.msgs = <<[level |-> "info",
                                 text |-> "Successfully logged out from App Center",
                                 arg |-> <<>>]>>
              /\ authBar' = [authenticated |-> FALSE, name |-> ""]
        /\ Does("logout", "logoutCatch") =>
              /\ last'.logs # <<>>
              /\ last'.msgs = <<>>
              /\ authBar' = authBar
      ]_vars

C7_Witness ==
    /\ Did("logout", "logoutThen")
    /\ ~authBar.authenticated
    /\ ~profile.stored
    /\ appBar \notin {Unset, Null}

\* C8: the promise login, logout, getCurrentApp and setCurrentApp return is
\* resolved from the moment the command returns and stays resolved, also
\* when a callback of the prompt chain throws; the promise releaseReact
\* returns is pending until its current-app check has run.
Detached == {"login", "logout", "getCurrentApp", "setCurrentApp", "whoAmI"}

C8_ReturnedPromise ==
    /\ \A t \in Tasks : t.kind \in Detached => t.ret = "resolved"
    /\ last.kind \in Detached => last.ret = "resolved"
    /\ \A t \in Tasks : At(t, "releaseReact", "releaseThen") => t.ret = "pending"
    /\ Did("releaseReact", "invoke") => last.ret = "pending"
    /\ Did("releaseReact", "releaseThen") => last.ret = "resolved"

C8_Witness ==
    /\ Did("login", "pickLoginType")
    /\ last.thrown
    /\ last.answer = Undefined
    /\ last.ret = "resolved"

C10_RoundTrip ==
    [][ /\ (Does("setCurrentApp", "inputApp") /\ last'.saved) =>
              /\ restoreCurrentApp(profile') # NullApp
              /\ SameApp(restoreCurrentApp(profile'), toDefaultApp(last'.answer))
        /\ (last'.kind \in {"getCurrentApp", "releaseReact"} /\ last'.pc = "invoke") =>
              /\ SameApp(last'.app, StoredApp(profile))
              /\ last'.app = NullApp <=> StoredApp(profile) = NullApp
        /\ last'.kind \in {"whoAmI", "getCurrentApp", "releaseReact"} =>
              /\ profile' = profile
              /\ profileFile' = profileFile
      ]_vars

C10_Witness ==
    /\ Did("getCurrentApp", "invoke")
    /\ last.app # NullApp
    /\ Len(last.app.ownerName) # Len(last.app.appName)
    /\ SameApp(last.app, profile.defaultApp)

====
